---- MODULE Spec2Model ----
(***************************************************************************)
(* A model of scripts/check_import_mappings.py: the discovery of the       *)
(* package-init files of `langchain` (find_init_files), the extraction of  *)
(* the langchain_core imports and of __all__ from one file                  *)
(* (analyze_init_file with its ImportVisitor), and the report and summary  *)
(* counters built by main.                                                  *)
(*                                                                          *)
(* Strings the code inspects character by character (module names, path    *)
(* segments) are sequences of one-character strings; identifiers the code  *)
(* only compares for equality are TLA+ strings.                             *)
(***************************************************************************)
EXTENDS Integers, Sequences, FiniteSets, TLC

VARIABLES
    source,        \* analyze_init_file: what opening and parsing the file gives
    analysis,      \* analyze_init_file: <<the returned dict>>, <<>> before the call
    pc,            \* main: the statement main is at
    root_exists,   \* whether <temp_dir>/langchain exists after the installation
    install_ok,    \* whether pip install returns 0
    fs,            \* the tree below <temp_dir>/langchain
    temp_dir,      \* the directory tempfile.TemporaryDirectory() made for this run
    init_files,    \* main: the list find_init_files returned
    results,       \* main: the results dict (metadata, analysis, summary)
    run,           \* how many times main has been started
    reports,       \* the results dicts written by the runs that completed
    exception      \* the exception that escaped (pc = "raised"), NoError otherwise

vars == <<source, analysis, pc, root_exists, install_ok, fs, temp_dir, init_files,
          results, run, reports, exception>>

analyzeVars == <<source, analysis>>
mainVars == <<root_exists, install_ok, fs, temp_dir, init_files, results, run, reports>>

----------------------------------------------------------------------------
(* Bounds of the inputs.                                                   *)

MaxStmts == 2
MaxNames == 1
MaxElts == 1
MaxDepth == 2
MaxPkgDepth == 1
MaxFiles == 2

----------------------------------------------------------------------------
(* Strings and sequences.                                                  *)

SeqsUpTo(S, n) == UNION {[1..k -> S] : k \in 0..n}

NonEmptySeqsUpTo(S, n) == UNION {[1..k -> S] : k \in 1..n}

Range(s) == {s[i] : i \in DOMAIN s}

\* str.startswith
StartsWith(s, prefix) ==
    /\ Len(s) >= Len(prefix)
    /\ SubSeq(s, 1, Len(prefix)) = prefix

\* The literal "langchain_core" of visit_ImportFrom.
UpstreamPrefix ==
    <<"l", "a", "n", "g", "c", "h", "a", "i", "n", "_", "c", "o", "r", "e">>

\* The literal "_" of find_init_files.
Underscore == <<"_">>

\* The file name "__init__.py".
InitName == <<"_", "_", "i", "n", "i", "t", "_", "_", ".", "p", "y">>

----------------------------------------------------------------------------
(* Python dicts: insertion-ordered sequences of (key, value) items.        *)

EmptyDict == <<>>

DictKeys(d) == {d[i].key : i \in DOMAIN d}

DictHas(d, k) == \E i \in DOMAIN d : d[i].key = k

DictGet(d, k) == d[CHOOSE i \in DOMAIN d : d[i].key = k].value

\* A faulty variant of DictSet: the first binding of a key is kept.
DictSetKeepFirst(d, k, v) ==
    IF DictHas(d, k) THEN d ELSE Append(d, [key |-> k, value |-> v])

\* d[k] = v: an existing key keeps its place and takes the new value.
DictSet(d, k, v) ==
    IF DictHas(d, k)
    THEN [i \in DOMAIN d |-> IF d[i].key = k THEN [key |-> k, value |-> v] ELSE d[i]]
    ELSE Append(d, [key |-> k, value |-> v])

----------------------------------------------------------------------------
(* The syntax tree of a module, as ast.parse gives it.  A tree is the      *)
(* sequence of its statements in the order NodeVisitor.generic_visit       *)
(* reaches them (source order): ImportFrom, Assign, and Expr for any       *)
(* statement the visitor has no method for.  `nested` tells that the       *)
(* statement is in the body of a compound statement (def, class, if, try)  *)
(* rather than at module level; `deep` tells that the statement nests      *)
(* deeper than the interpreter's recursion limit lets generic_visit go     *)
(* (a.b.b.b... with hundreds of attributes).                                *)

NoAsname == ""

Alias(name, asname) == [name |-> name, asname |-> asname]

PyStr(s) == [kind |-> "str", value |-> s]

PyInt(s) == [kind |-> "int", value |-> s]

PyBytes(s) == [kind |-> "bytes", value |-> s]

PyFloat(s) == [kind |-> "float", value |-> s]

\* ast.Constant(value=v)
Constant(v) == [type |-> "Constant", value |-> v]

\* ast.Name(id=id) as a list element: an expression, not a literal
NameExpr(id) == [type |-> "Name", value |-> PyStr(id)]

\* ast.Name / ast.Attribute as an assignment target
Target(type, id) == [type |-> type, id |-> id]

NoValue == [type |-> "None", elts |-> <<>>]

\* from <module> import <names>; module <<>> is ast's None (from . import x)
ImportFrom(module, names, nested) ==
    [type |-> "ImportFrom", nested |-> nested, deep |-> FALSE, module |-> module,
     names |-> names, targets |-> <<>>, value |-> NoValue]

\* <targets> = <value>; value.type is "List" or "Tuple"
Assign(targets, vtype, elts, nested) ==
    [type |-> "Assign", nested |-> nested, deep |-> FALSE, module |-> <<>>,
     names |-> <<>>, targets |-> targets, value |-> [type |-> vtype, elts |-> elts]]

\* a statement that is neither: generic_visit walks into it
Expr(deep) ==
    [type |-> "Expr", nested |-> FALSE, deep |-> deep, module |-> <<>>,
     names |-> <<>>, targets |-> <<>>, value |-> NoValue]

----------------------------------------------------------------------------
(* analyze_init_file                                                       *)

NoError == "none"

\* name = alias.asname if alias.asname else alias.name
LocalName(alias) == IF alias.asname # NoAsname THEN alias.asname ELSE alias.name

\* node.module and node.module.startswith("langchain_core")
ModuleMatches(module) ==
    /\ module # <<>>
    /\ StartsWith(module, UpstreamPrefix)

RECURSIVE StoreNames(_, _, _, _)
\* for alias in node.names: langchain_core_imports[name] = {...}
StoreNames(imports, module, names, i) ==
    IF i > Len(names) THEN imports
    ELSE StoreNames(DictSet(imports, LocalName(names[i]),
                            [module |-> module, original_name |-> names[i].name]),
                    module, names, i + 1)

\* ImportVisitor.visit_ImportFrom
visit_ImportFrom(imports, node) ==
    IF ModuleMatches(node.module)
    THEN StoreNames(imports, node.module, node.names, 1)
    ELSE imports

\* elt.value for elt in node.value.elts if isinstance(elt, ast.Constant)
ConstantValues(elts) ==
    LET RECURSIVE Take(_)
        Take(i) == IF i > Len(elts) THEN <<>>
                   ELSE (IF elts[i].type = "Constant" THEN <<elts[i].value>> ELSE <<>>)
                        \o Take(i + 1)
    IN Take(1)

\* the test of visit_Assign on one target
IsAllListTarget(target, node) ==
    /\ target.type = "Name"
    /\ target.id = "__all__"
    /\ node.value.type = "List"

RECURSIVE ExtendPerTarget(_, _, _)
\* for target in node.targets: ... all_exports.extend(...)
ExtendPerTarget(exports, node, i) ==
    IF i > Len(node.targets) THEN exports
    ELSE ExtendPerTarget(
            IF IsAllListTarget(node.targets[i], node)
            THEN exports \o ConstantValues(node.value.elts)
            ELSE exports,
            node, i + 1)

\* ImportVisitor.visit_Assign
visit_Assign(exports, node) == ExtendPerTarget(exports, node, 1)

\* generic_visit on a node without a visit_ method: one recursion per nesting
\* level, RecursionError when the node is deeper than the limit allows
generic_visit(acc, node) ==
    IF node.deep THEN [acc EXCEPT !.raised = "RecursionError"] ELSE acc

RECURSIVE Visit(_, _, _)
\* visitor.visit(tree): the two accumulators after the walk, or the exception
\* that ended it
Visit(tree, i, acc) ==
    IF i > Len(tree) \/ acc.raised # NoError THEN acc
    ELSE Visit(tree, i + 1,
               CASE tree[i].type = "ImportFrom" ->
                      [acc EXCEPT !.langchain_core_imports = visit_ImportFrom(@, tree[i])]
                 [] tree[i].type = "Assign" ->
                      [acc EXCEPT !.all_exports = visit_Assign(@, tree[i])]
                 [] OTHER -> generic_visit(acc, tree[i]))

\* export in langchain_core_imports
ExportIsImported(imports, export) ==
    export.kind = "str" /\ DictHas(imports, export.value)

\* A faulty variant of Intersect: every import counts as exported.
IntersectAllImports(imports, exports, i, out) == imports

RECURSIVE IntersectByOriginal(_, _, _, _)
\* A faulty variant of Intersect: an export also matches the upstream name of an import.
IntersectByOriginal(imports, exports, i, out) ==
    IF i > Len(exports) THEN out
    ELSE IntersectByOriginal(imports, exports, i + 1,
            IF /\ exports[i].kind = "str"
               /\ \E j \in DOMAIN imports :
                     exports[i].value \in {imports[j].key, imports[j].value.original_name}
            THEN DictSet(out, exports[i].value,
                         imports[CHOOSE j \in DOMAIN imports :
                                    exports[i].value \in {imports[j].key,
                                                          imports[j].value.original_name}].value)
            ELSE out)

RECURSIVE Intersect(_, _, _, _)
\* for export in all_exports: if export in langchain_core_imports: ...
Intersect(imports, exports, i, out) ==
    IF i > Len(exports) THEN out
    ELSE Intersect(imports, exports, i + 1,
                   IF ExportIsImported(imports, exports[i])
                   THEN DictSet(out, exports[i].value, DictGet(imports, exports[i].value))
                   ELSE out)

\* the dict of the except branch
ErrorAnalysis(file, error) ==
    [file |-> file, error |-> error, langchain_core_imports |-> EmptyDict,
     all_exports |-> <<>>, exported_from_core |-> EmptyDict]

\* except (OSError, SyntaxError, ValueError)
CaughtExceptions == {"OSError", "SyntaxError", "ValueError"}

Returned(dict) == [raised |-> NoError, returned |-> <<dict>>]

Raised(e) == [raised |-> e, returned |-> <<>>]

\* analyze_init_file(init_file), src being what open/read/ast.parse give: status
\* "ok" with the tree, or the exception raised.  The result is the dict returned,
\* or the exception that leaves the function.
analyze_init_file(file, src) ==
    LET acc == IF src.status # "ok"
               THEN [langchain_core_imports |-> EmptyDict, all_exports |-> <<>>,
                     raised |-> src.status]
               ELSE Visit(src.tree, 1,
                          [langchain_core_imports |-> EmptyDict, all_exports |-> <<>>,
                           raised |-> NoError])
    IN CASE acc.raised \in CaughtExceptions -> Returned(ErrorAnalysis(file, acc.raised))
         [] acc.raised # NoError /\ acc.raised \notin CaughtExceptions -> Raised(acc.raised)
         [] OTHER ->
              Returned([file |-> file, error |-> NoError,
                        langchain_core_imports |-> acc.langchain_core_imports,
                        all_exports |-> acc.all_exports,
                        exported_from_core |->
                            Intersect(acc.langchain_core_imports, acc.all_exports,
                                      1, EmptyDict)])

----------------------------------------------------------------------------
(* The modules analyze_init_file is applied to.                            *)

LangchainCore == UpstreamPrefix

LangchainCoreA == UpstreamPrefix \o <<".", "a">>

LangchainCoreX == UpstreamPrefix \o <<"_", "x">>

Langchain == SubSeq(UpstreamPrefix, 1, Len(UpstreamPrefix) - Len(<<"_", "c", "o", "r", "e">>))

NoModule == <<>>

Aliases == {Alias("A", NoAsname), Alias("B", NoAsname), Alias("B", "A")}

NameLists == NonEmptySeqsUpTo(Aliases, MaxNames)

ImportStmts(modules, nestings) ==
    {ImportFrom(m, ns, n) : m \in modules, ns \in NameLists, n \in nestings}

AllTarget == Target("Name", "__all__")

TargetLists ==
    {<<AllTarget>>, <<Target("Name", "x")>>, <<Target("Attribute", "__all__")>>,
     <<AllTarget, AllTarget>>}

Elements ==
    {Constant(PyStr("A")), Constant(PyStr("B")), Constant(PyInt("1")),
     Constant(PyBytes("A")), NameExpr("A")}

AssignStmts(targetLists, vtypes, elements, nestings) ==
    {Assign(ts, vt, es, n) : ts \in targetLists, vt \in vtypes,
                             es \in SeqsUpTo(elements, MaxElts), n \in nestings}

OkSource(tree) == [status |-> "ok", tree |-> tree]

\* open() or read() raising OSError or UnicodeDecodeError (a ValueError), ast.parse
\* raising SyntaxError, or MemoryError or RecursionError on a source nested too deep
\* for the parser
FailedSources ==
    {[status |-> e, tree |-> <<>>] :
        e \in {"OSError", "ValueError", "SyntaxError", "MemoryError", "RecursionError"}}

\* modules of at most n import-from statements
ImportSources(n) ==
    {OkSource(t) : t \in SeqsUpTo(
        ImportStmts({NoModule, LangchainCore, LangchainCoreA, LangchainCoreX, Langchain},
                    BOOLEAN), n)}

\* modules of at most n assignments
ExportSources(n) ==
    {OkSource(t) : t \in SeqsUpTo(
        AssignStmts(TargetLists, {"List", "Tuple"}, Elements, BOOLEAN), n)}

\* modules of at most n imports, module-level __all__ = [...] and other statements
MixedSources(n) ==
    {OkSource(t) : t \in SeqsUpTo(
        ImportStmts({LangchainCore, LangchainCoreA, LangchainCoreX, Langchain}, {FALSE})
          \cup AssignStmts({<<AllTarget>>}, {"List"},
                           Elements \ {NameExpr("A"), Constant(PyBytes("A"))}, {FALSE})
          \cup {Expr(FALSE), Expr(TRUE)},
        n)}

----------------------------------------------------------------------------
(* Paths and the tree below <temp_dir>/langchain.  A path is the sequence  *)
(* of its segments.  The tree is a set of entries: the regular files named *)
(* __init__.py, each with what reading and parsing it gives, and the       *)
(* directories above them.                                                  *)

\* the directory name "langchain" of find_init_files
LangchainDirName == Langchain

\* Path.parts[:-1]
Front(path) == SubSeq(path, 1, Len(path) - 1)

Last(path) == path[Len(path)]

\* init_file.relative_to(langchain_dir)
RelativeTo(path, dir) == SubSeq(path, Len(dir) + 1, Len(path))

IsProperPrefix(d, p) == Len(d) < Len(p) /\ SubSeq(p, 1, Len(d)) = d

\* open() on a directory raises IsADirectoryError, an OSError
DirSource == [status |-> "OSError", tree |-> <<>>]

FileEntry(path, src) == [path |-> path, is_dir |-> FALSE, source |-> src]

DirEntry(path) == [path |-> path, is_dir |-> TRUE, source |-> DirSource]

\* the directories a set of file paths needs, the root excepted
DirsAbove(paths) == UNION {{SubSeq(p, 1, n) : n \in 1..Len(p) - 1} : p \in paths}

\* the tree holding exactly the files of `content` (path -> source)
TreeOf(content) ==
    {FileEntry(p, content[p]) : p \in DOMAIN content}
        \cup {DirEntry(d) : d \in DirsAbove(DOMAIN content)}

\* no path is both a file and a directory
Consistent(paths) == \A p \in paths, q \in paths : ~IsProperPrefix(p, q)

InitPathsBelow(segments, depth) ==
    {d \o <<InitName>> : d \in SeqsUpTo(segments, depth)}

FileSets(segments, depth) ==
    {P \in SUBSET InitPathsBelow(segments, depth) :
        Cardinality(P) <= MaxFiles /\ Consistent(P)}

\* the directories directly inside a directory, as os.scandir lists them
Subdirectories(tree, dir) ==
    {e.path : e \in {e \in tree : e.is_dir /\ Front(e.path) = dir}}

RECURSIVE rglob(_, _), rglobEach(_, _)
\* dir.rglob("__init__.py"): the listings it may yield.  The walk yields the entry
\* named __init__.py of a directory, file or directory, before it descends, and
\* descends into the subdirectories one after the other in the order os.scandir
\* lists them, which is arbitrary.
rglob(tree, dir) ==
    LET own == dir \o <<InitName>>
        first == IF \E e \in tree : e.path = own THEN <<own>> ELSE <<>>
    IN {first \o below : below \in rglobEach(tree, Subdirectories(tree, dir))}

\* the walks of a set of sibling directories, in any order of the siblings
rglobEach(tree, dirs) ==
    IF dirs = {} THEN {<<>>}
    ELSE UNION {{head \o rest : head \in rglob(tree, d),
                                rest \in rglobEach(tree, dirs \ {d})} : d \in dirs}

----------------------------------------------------------------------------
(* find_init_files                                                         *)

\* any(part.startswith("_") and part != "__init__.py" for part in parts)
IsSkipped(init_file, langchain_dir) ==
    LET parts == Front(RelativeTo(init_file, langchain_dir))
    IN \E i \in DOMAIN parts :
          StartsWith(parts[i], Underscore) /\ parts[i] # InitName

RECURSIVE KeepPublic(_, _, _)
\* the loop of find_init_files over what rglob yields
KeepPublic(listing, langchain_dir, i) ==
    IF i > Len(listing) THEN <<>>
    ELSE (IF IsSkipped(listing[i], langchain_dir) THEN <<>> ELSE <<listing[i]>>)
         \o KeepPublic(listing, langchain_dir, i + 1)

\* find_init_files(package_path); exists: langchain_dir.exists(); listing: the
\* relative paths rglob yields, in the order it yields them
find_init_files(package_path, exists, listing) ==
    LET langchain_dir == package_path \o <<LangchainDirName>>
    IN IF ~exists THEN <<>>
       ELSE KeepPublic([i \in DOMAIN listing |-> langchain_dir \o listing[i]],
                       langchain_dir, 1)

----------------------------------------------------------------------------
(* main                                                                    *)

NoResults == [total_init_files |-> -1, analysis |-> <<>>, summary |-> <<>>]

\* A faulty variant of NewResults: the file count is one too many.
NewResultsOffByOne(files) ==
    [total_init_files |-> Len(files) + 1, analysis |-> <<>>, summary |-> <<>>]

\* results = {"metadata": {..., "total_init_files": len(init_files)}, "analysis": []}
NewResults(files) ==
    [total_init_files |-> Len(files), analysis |-> <<>>, summary |-> <<>>]

RECURSIVE CountExports(_, _, _)
\* for analysis in results["analysis"]: if analysis.get("exported_from_core"): ...
CountExports(analyses, i, acc) ==
    IF i > Len(analyses) THEN acc
    ELSE CountExports(analyses, i + 1,
            IF analyses[i].exported_from_core # EmptyDict
            THEN [total_langchain_core_reexports |->
                      acc.total_langchain_core_reexports
                          + Len(analyses[i].exported_from_core),
                  modules_with_core_reexports |-> acc.modules_with_core_reexports + 1]
            ELSE acc)

RECURSIVE CountListed(_, _, _)
\* the counting loop, over the listings in all_exports instead of the entries
CountListed(analyses, i, acc) ==
    IF i > Len(analyses) THEN acc
    ELSE LET a == analyses[i]
             listed == {j \in DOMAIN a.all_exports :
                          ExportIsImported(a.langchain_core_imports, a.all_exports[j])}
         IN CountListed(analyses, i + 1,
               IF listed # {}
               THEN [total_langchain_core_reexports |->
                         acc.total_langchain_core_reexports + Cardinality(listed),
                     modules_with_core_reexports |-> acc.modules_with_core_reexports + 1]
               ELSE acc)

\* A faulty variant of Summary: every listing of a re-exported name in __all__ is counted.
SummaryCountsListed(analyses) ==
    CountListed(analyses, 1,
                [total_langchain_core_reexports |-> 0, modules_with_core_reexports |-> 0])

\* total_core_exports = 0; modules_with_core_exports = 0; the loop; results["summary"]
Summary(analyses) ==
    CountExports(analyses, 1,
                 [total_langchain_core_reexports |-> 0, modules_with_core_reexports |-> 0])

TempDirs == {<<"t", "1">>, <<"t", "2">>}

\* the source of the entry at a path of the tree
SourceAt(tree, rel) == (CHOOSE e \in tree : e.path = rel).source

\* with tempfile.TemporaryDirectory() as temp_dir: install_packages(temp_path, ...)
InstallPackages ==
    /\ pc = "start"
    /\ \E t \in TempDirs : temp_dir' = t
    /\ pc' = IF install_ok THEN "find" ELSE "raised"
    /\ exception' = IF install_ok THEN NoError ELSE "Exception"
    /\ UNCHANGED <<analyzeVars, root_exists, install_ok, fs, init_files, results, run,
                   reports>>

\* init_files = find_init_files(temp_path); results = {...}
FindInitFiles ==
    /\ pc = "find"
    /\ \E listing \in rglob(fs, <<>>) :
          /\ init_files' = find_init_files(<<temp_dir>>, root_exists, listing)
          /\ results' = NewResults(init_files')
    /\ pc' = "analyze"
    /\ UNCHANGED <<analyzeVars, root_exists, install_ok, fs, temp_dir, run, reports,
                   exception>>

\* one iteration of: for init_file in init_files: results["analysis"].append(...);
\* an exception analyze_init_file lets through ends main
AnalyzeNext ==
    /\ pc = "analyze"
    /\ Len(results.analysis) < Len(init_files)
    /\ LET init_file == init_files[Len(results.analysis) + 1]
           rel == RelativeTo(init_file, <<temp_dir, LangchainDirName>>)
           outcome == analyze_init_file(init_file, SourceAt(fs, rel))
       IN IF outcome.raised # NoError
          THEN /\ pc' = "raised"
               /\ exception' = outcome.raised
               /\ UNCHANGED results
          ELSE /\ results' = [results EXCEPT !.analysis = Append(@, outcome.returned[1])]
               /\ UNCHANGED <<pc, exception>>
    /\ UNCHANGED <<analyzeVars, root_exists, install_ok, fs, temp_dir, init_files,
                   run, reports>>

\* the constants json.dump has an encoding for among those visit_Assign collects:
\* str, int, float, bool and None; not bytes, Ellipsis or complex
JsonEncodable(v) == v.kind \in {"str", "int", "float", "bool", "NoneType"}

\* int.__repr__, which the encoder calls on an int, raises ValueError on an int of
\* more than sys.get_int_max_str_digits() decimal digits (a hex literal can be one)
MaxStrDigits == 4300

IntToStrRaises(v) == v.kind = "int" /\ Len(v.value) > MaxStrDigits

\* the exception encoding one constant raises, NoError if none
EncodeRaises(v) ==
    IF ~JsonEncodable(v) THEN "TypeError"
    ELSE IF IntToStrRaises(v) THEN "ValueError"
    ELSE NoError

RECURSIVE FirstRaised(_, _)
\* the encoder writes the values in order and stops at the first that raises
FirstRaised(values, i) ==
    IF i > Len(values) THEN NoError
    ELSE IF EncodeRaises(values[i]) # NoError THEN EncodeRaises(values[i])
    ELSE FirstRaised(values, i + 1)

RECURSIVE DumpRaises(_, _)
\* json.dump(results, f): the exception it raises, NoError if it writes the report
DumpRaises(res, i) ==
    IF i > Len(res.analysis) THEN NoError
    ELSE IF FirstRaised(res.analysis[i].all_exports, 1) # NoError
         THEN FirstRaised(res.analysis[i].all_exports, 1)
    ELSE DumpRaises(res, i + 1)

\* the summary loop, results["summary"] = {...} and json.dump(results, f): the report
\* is written, or the dump raises and leaves no report
Summarize ==
    /\ pc = "analyze"
    /\ Len(results.analysis) = Len(init_files)
    /\ results' = [results EXCEPT !.summary = <<Summary(results.analysis)>>]
    /\ IF DumpRaises(results', 1) # NoError
       THEN /\ pc' = "raised"
            /\ exception' = DumpRaises(results', 1)
            /\ UNCHANGED reports
       ELSE /\ reports' = Append(reports, results')
            /\ pc' = "done"
            /\ UNCHANGED exception
    /\ UNCHANGED <<analyzeVars, root_exists, install_ok, fs, temp_dir, init_files, run>>

\* the script is run again on the same packages
Rerun ==
    /\ pc = "done"
    /\ Len(reports) = 1
    /\ pc' = "start"
    /\ run' = run + 1
    /\ init_files' = <<>>
    /\ results' = NoResults
    /\ UNCHANGED <<analyzeVars, root_exists, install_ok, fs, temp_dir, reports,
                   exception>>

\* B as A and B imported from langchain_core.a; __all__ lists A twice, B, and C
SrcTwo ==
    OkSource(<<ImportFrom(LangchainCoreA, <<Alias("B", "A"), Alias("B", NoAsname)>>, FALSE),
               Assign(<<AllTarget>>, "List",
                      <<Constant(PyStr("A")), Constant(PyStr("B")),
                        Constant(PyStr("A")), Constant(PyStr("C"))>>, FALSE)>>)

\* A bound twice, by langchain_core and then by langchain_core.a, and exported
SrcOne ==
    OkSource(<<ImportFrom(LangchainCore, <<Alias("A", NoAsname)>>, FALSE),
               ImportFrom(LangchainCoreA, <<Alias("B", "A")>>, FALSE),
               Assign(<<AllTarget>>, "List", <<Constant(PyStr("A"))>>, FALSE)>>)

\* nothing imported from langchain_core; __all__ = [1.5, "A"]
SrcPlain ==
    OkSource(<<ImportFrom(Langchain, <<Alias("A", NoAsname)>>, FALSE),
               Assign(<<AllTarget>>, "List",
                      <<Constant(PyFloat("1.5")), Constant(PyStr("A"))>>, FALSE)>>)

SrcBroken == [status |-> "SyntaxError", tree |-> <<>>]

\* x = ----...1 with thousands of signs: ast.parse raises MemoryError
SrcOverflow == [status |-> "MemoryError", tree |-> <<>>]

\* A imported from langchain_core and exported, then the statement a.b.b.b... with
\* hundreds of attributes
SrcDeep ==
    OkSource(<<ImportFrom(LangchainCore, <<Alias("A", NoAsname)>>, FALSE),
               Assign(<<AllTarget>>, "List", <<Constant(PyStr("A"))>>, FALSE),
               Expr(TRUE)>>)

\* A imported from langchain_core; __all__ = [b"A", "A"]
SrcBytes ==
    OkSource(<<ImportFrom(LangchainCore, <<Alias("A", NoAsname)>>, FALSE),
               Assign(<<AllTarget>>, "List",
                      <<Constant(PyBytes("A")), Constant(PyStr("A"))>>, FALSE)>>)

RECURSIVE Repeat(_, _)
\* a string n times
Repeat(str, n) ==
    IF n = 0 THEN ""
    ELSE IF n % 2 = 0 THEN LET half == Repeat(str, n \div 2) IN half \o half
    ELSE str \o Repeat(str, n - 1)

\* A imported from langchain_core; __all__ = [0x..., "A"], the hex literal being an
\* int of one decimal digit more than int-to-str conversion allows
SrcHuge ==
    OkSource(<<ImportFrom(LangchainCore, <<Alias("A", NoAsname)>>, FALSE),
               Assign(<<AllTarget>>, "List",
                      <<Constant(PyInt(Repeat("1", MaxStrDigits + 1))),
                        Constant(PyStr("A"))>>, FALSE)>>)

SampleSources ==
    {SrcTwo, SrcOne, SrcPlain, SrcBroken, SrcOverflow, SrcDeep, SrcBytes, SrcHuge}

PublicDir == <<"a">>

PrivateDir == <<"_", "p">>

OtherDir == <<"b">>

\* the trees main is run on: directories at most `depth` deep
PkgTrees(depth) ==
    {TreeOf(c) : c \in UNION {[P -> SampleSources] :
                                P \in FileSets({PublicDir, OtherDir, PrivateDir}, depth)}}

\* the trees find_init_files is applied to: directories at most `depth` deep
LocateTrees(depth) ==
    {TreeOf([p \in P |-> SrcPlain]) :
        P \in FileSets({PublicDir, PrivateDir, InitName}, depth)}

AnalyzeIdle == source = SrcBroken /\ analysis = <<>>

Init ==
    /\ AnalyzeIdle
    /\ pc = "start"
    /\ install_ok \in BOOLEAN
    /\ root_exists \in (IF install_ok THEN BOOLEAN ELSE {FALSE})
    /\ fs \in (IF root_exists THEN PkgTrees(MaxPkgDepth) ELSE {{}})
    /\ temp_dir = <<>>
    /\ init_files = <<>>
    /\ results = NoResults
    /\ run = 1
    /\ reports = <<>>
    /\ exception = NoError

InitLocate ==
    /\ AnalyzeIdle
    /\ pc = "find"
    /\ install_ok = TRUE
    /\ root_exists \in BOOLEAN
    /\ fs \in (IF root_exists THEN LocateTrees(MaxDepth) ELSE {{}})
    /\ temp_dir \in TempDirs
    /\ init_files = <<>>
    /\ results = NoResults
    /\ run = 1
    /\ reports = <<>>
    /\ exception = NoError

Next == InstallPackages \/ FindInitFiles \/ AnalyzeNext \/ Summarize

NextTwice == Next \/ Rerun

NextLocate == FindInitFiles

Spec == Init /\ [][Next]_vars

SpecTwice == Init /\ [][NextTwice]_vars

SpecLocate == InitLocate /\ [][NextLocate]_vars

----------------------------------------------------------------------------
(* analyze_init_file on its own.                                           *)

AnalyzedFile == <<InitName>>

MainIdle ==
    /\ pc = "idle"
    /\ root_exists = FALSE
    /\ install_ok = FALSE
    /\ fs = {}
    /\ temp_dir = <<>>
    /\ init_files = <<>>
    /\ results = NoResults
    /\ run = 0
    /\ reports = <<>>
    /\ exception = NoError

\* analysis = analyze_init_file(init_file): the dict returned, or the exception
\* that reaches the caller
AnalyzeInitFile ==
    /\ pc = "idle"
    /\ LET outcome == analyze_init_file(AnalyzedFile, source)
       IN /\ analysis' = outcome.returned
          /\ exception' = outcome.raised
          /\ pc' = IF outcome.raised # NoError THEN "raised" ELSE "returned"
    /\ UNCHANGED <<source, mainVars>>

InitAnalyze ==
    /\ source \in MixedSources(MaxStmts) \cup FailedSources \cup SampleSources
    /\ analysis = <<>>
    /\ MainIdle

InitImports ==
    /\ source \in ImportSources(MaxStmts)
    /\ analysis = <<>>
    /\ MainIdle

InitExports ==
    /\ source \in ExportSources(MaxStmts)
    /\ analysis = <<>>
    /\ MainIdle

NextAnalyze == AnalyzeInitFile

SpecAnalyze == InitAnalyze /\ [][NextAnalyze]_vars

SpecImports == InitImports /\ [][NextAnalyze]_vars

SpecExports == InitExports /\ [][NextAnalyze]_vars

----------------------------------------------------------------------------
(* The claims.                                                             *)

Analyzed == analysis # <<>>

AnalyzedOk == analysis # <<>> /\ analysis[1].error = NoError

\* C1: in every analysis analyze_init_file returns, successful or errored, each key
\* of exported_from_core is a key of langchain_core_imports and an element of
\* all_exports.
C1_ReexportsContained ==
    Analyzed =>
        LET a == analysis[1]
        IN \A k \in DictKeys(a.exported_from_core) :
              /\ k \in DictKeys(a.langchain_core_imports)
              /\ PyStr(k) \in Range(a.all_exports)

\* a module that re-exports an import and lists a name it does not re-export
C1_Witness ==
    /\ Analyzed
    /\ analysis[1].exported_from_core # EmptyDict
    /\ \E e \in Range(analysis[1].all_exports) :
          ~DictHas(analysis[1].exported_from_core, e.value)

\* C2: in a successfully parsed module every name of all_exports that is a key of
\* langchain_core_imports has an entry in exported_from_core, equal to the binding
\* stored under that key; a name of all_exports that is no key (only the upstream
\* name of an aliased import, or not imported) has none, and neither has an element
\* that is no string.
C2_EntryPerSharedName ==
    AnalyzedOk =>
        LET a == analysis[1]
            names == {e \in Range(a.all_exports) : e.kind = "str"}
        IN /\ \A e \in names :
                 IF DictHas(a.langchain_core_imports, e.value)
                 THEN /\ DictHas(a.exported_from_core, e.value)
                      /\ DictGet(a.exported_from_core, e.value)
                           = DictGet(a.langchain_core_imports, e.value)
                 ELSE ~DictHas(a.exported_from_core, e.value)
           /\ DictKeys(a.exported_from_core) \subseteq {e.value : e \in names}

\* B is imported as A only, and __all__ lists B
C2_Witness ==
    /\ AnalyzedOk
    /\ PyStr("B") \in Range(analysis[1].all_exports)
    /\ ~DictHas(analysis[1].langchain_core_imports, "B")
    /\ DictHas(analysis[1].langchain_core_imports, "A")
    /\ DictGet(analysis[1].langchain_core_imports, "A").original_name = "B"
    /\ ~DictHas(analysis[1].exported_from_core, "B")

\* C3: a binding enters langchain_core_imports only from a statement whose module is
\* exactly langchain_core or starts with "langchain_core."; any other module,
\* langchain_core_x among them, contributes none.
C3_OnlyDottedPrefix ==
    Analyzed =>
        \A i \in DOMAIN analysis[1].langchain_core_imports :
            LET m == analysis[1].langchain_core_imports[i].value.module
            IN m = UpstreamPrefix \/ StartsWith(m, UpstreamPrefix \o <<".">>)

\* the (statement, name) places whose statement visit_ImportFrom accepts
ImportPlaces(tree) ==
    UNION {{<<i, j>> : j \in DOMAIN tree[i].names} :
              i \in {i \in DOMAIN tree : /\ tree[i].type = "ImportFrom"
                                        /\ ModuleMatches(tree[i].module)}}

PlacesOf(tree, k) ==
    {p \in ImportPlaces(tree) : LocalName(tree[p[1]].names[p[2]]) = k}

Before(p, q) == p[1] < q[1] \/ (p[1] = q[1] /\ p[2] <= q[2])

LastPlace(tree, k) ==
    CHOOSE p \in PlacesOf(tree, k) : \A q \in PlacesOf(tree, k) : Before(q, p)

BindingAt(tree, p) ==
    [module |-> tree[p[1]].module, original_name |-> tree[p[1]].names[p[2]].name]

\* C4: langchain_core_imports has one key per local name (the alias if given, else
\* the name) bound by an accepted import-from, its value the module and upstream name
\* of the last such import in source order; exported_from_core reports that same
\* binding.
C4_LastBindingWins ==
    AnalyzedOk =>
        LET a == analysis[1]
            tree == source.tree
        IN /\ DictKeys(a.langchain_core_imports)
                = {LocalName(tree[p[1]].names[p[2]]) : p \in ImportPlaces(tree)}
           /\ \A k \in DictKeys(a.langchain_core_imports) :
                 /\ DictGet(a.langchain_core_imports, k)
                      = BindingAt(tree, LastPlace(tree, k))
                 /\ DictHas(a.exported_from_core, k) =>
                      DictGet(a.exported_from_core, k) = BindingAt(tree, LastPlace(tree, k))

\* one local name bound by two imports that differ, and exported
C4_Witness ==
    /\ AnalyzedOk
    /\ \E k \in DictKeys(analysis[1].exported_from_core) :
          \E p \in PlacesOf(source.tree, k), q \in PlacesOf(source.tree, k) :
             /\ BindingAt(source.tree, p) # BindingAt(source.tree, q)
             /\ source.tree[p[1]].names[p[2]].asname # NoAsname

\* the outcome of reading and parsing the i-th file of init_files
SourceOf(i) == SourceAt(fs, RelativeTo(init_files[i], <<temp_dir, LangchainDirName>>))

RECURSIVE SumEntries(_, _)
SumEntries(analyses, I) ==
    IF I = {} THEN 0
    ELSE LET i == CHOOSE i \in I : TRUE
         IN Cardinality(DictKeys(analyses[i].exported_from_core))
              + SumEntries(analyses, I \ {i})

\* C5: a file that cannot be read or parsed gives an analysis with an error and
\* empty imports, exports and re-exports, and never an exception that ends the loop
\* of main; main appends one analysis per file found, in order, and the summary
\* counters are those of the files that parsed.
C5_FailureIsolated ==
    LET as == results.analysis
        parsed == {i \in DOMAIN as : SourceOf(i).status = "ok"}
    IN /\ \A i \in DOMAIN as :
            /\ as[i].file = init_files[i]
            /\ (as[i].error = NoError) = (i \in parsed)
            /\ i \notin parsed =>
                 /\ as[i].langchain_core_imports = EmptyDict
                 /\ as[i].all_exports = <<>>
                 /\ as[i].exported_from_core = EmptyDict
       /\ Len(as) <= Len(init_files)
       /\ (pc = "raised" /\ Len(as) < Len(init_files)) =>
            SourceOf(Len(as) + 1).status = "ok"
       /\ results.summary # <<>> =>
            /\ Len(as) = Len(init_files)
            /\ results.summary =
                 <<[total_langchain_core_reexports |-> SumEntries(as, parsed),
                    modules_with_core_reexports |->
                        Cardinality({i \in parsed : as[i].exported_from_core # EmptyDict})]>>

\* the regular files named __init__.py with no underscore directory above them
PublicInitFiles(tree) ==
    {e.path : e \in {e \in tree :
                       /\ ~e.is_dir
                       /\ Last(e.path) = InitName
                       /\ \A i \in 1..Len(e.path) - 1 : ~StartsWith(e.path[i], Underscore)}}

\* C6: find_init_files returns exactly the __init__.py files with no directory
\* segment starting with an underscore between the package root and the file.
C6_ExactlyPublicInitFiles ==
    pc = "analyze" =>
        /\ {RelativeTo(init_files[i], <<temp_dir, LangchainDirName>>) : i \in DOMAIN init_files}
             = PublicInitFiles(fs)
        /\ Len(init_files) = Cardinality(PublicInitFiles(fs))

\* the names of all_exports that are keys of langchain_core_imports
SharedNames(a) ==
    {e.value : e \in {e \in Range(a.all_exports) :
                        e.kind = "str" /\ e.value \in DictKeys(a.langchain_core_imports)}}

RECURSIVE SumShared(_, _)
SumShared(analyses, I) ==
    IF I = {} THEN 0
    ELSE LET i == CHOOSE i \in I : TRUE
         IN Cardinality(SharedNames(analyses[i])) + SumShared(analyses, I \ {i})

\* C7: in the report main builds, total_langchain_core_reexports is the sum over the
\* analyses of the number of re-exported names, a name listed twice in __all__
\* counting once, modules_with_core_reexports is the number of analyses with a
\* re-export, and an errored module adds nothing to either.
C7_SummaryCounters ==
    results.summary # <<>> =>
        LET as == results.analysis
        IN /\ results.summary =
                <<[total_langchain_core_reexports |-> SumShared(as, DOMAIN as),
                   modules_with_core_reexports |->
                       Cardinality({i \in DOMAIN as : SharedNames(as[i]) # {}})]>>
           /\ \A i \in DOMAIN as :
                 /\ Len(as[i].exported_from_core) = Cardinality(SharedNames(as[i]))
                 /\ as[i].error # NoError => SharedNames(as[i]) = {}

\* a report over a module that lists a re-exported name twice and an errored module
C7_Witness ==
    /\ pc = "done"
    /\ results.summary # <<>>
    /\ \E i \in DOMAIN results.analysis :
          LET a == results.analysis[i]
          IN \E m \in DOMAIN a.all_exports, n \in DOMAIN a.all_exports :
                m < n /\ a.all_exports[m] = a.all_exports[n]
                      /\ a.all_exports[m].value \in SharedNames(a)
    /\ \E i \in DOMAIN results.analysis : results.analysis[i].error # NoError

\* C8: two runs on the same trees give the same report: the same modules in the
\* same order with the same contents and counters, whatever order the directory
\* scan yields the files in.
C8_SameReportTwice ==
    Len(reports) > 1 => reports[1] = reports[Len(reports)]

\* C9: when <temp_dir>/langchain does not exist, find_init_files returns the empty
\* list, main does not raise and goes on to the report, which has
\* total_init_files = 0, no analysis and both counters 0.
C9_MissingRootGivesEmptyReport ==
    (install_ok /\ ~root_exists) =>
        /\ pc # "raised"
        /\ pc # "done" => ENABLED Next
        /\ pc \in {"analyze", "done"} =>
             /\ init_files = <<>>
             /\ results.total_init_files = 0
             /\ results.analysis = <<>>
        /\ pc = "done" =>
             /\ results.summary = <<[total_langchain_core_reexports |-> 0,
                                     modules_with_core_reexports |-> 0]>>
             /\ reports = <<results>>

\* the run over a missing package root has ended
C9_Witness == install_ok /\ ~root_exists /\ pc = "done"

\* the literal strings of a list
StringLiterals(elts) ==
    LET RECURSIVE Take(_)
        Take(i) == IF i > Len(elts) THEN <<>>
                   ELSE (IF elts[i].type = "Constant" /\ elts[i].value.kind = "str"
                         THEN <<elts[i].value>> ELSE <<>>)
                        \o Take(i + 1)
    IN Take(1)

\* a module-level assignment of a list literal to __all__
IsAllAssignment(node) ==
    /\ node.type = "Assign"
    /\ ~node.nested
    /\ node.value.type = "List"
    /\ \E i \in DOMAIN node.targets : node.targets[i] = AllTarget

RECURSIVE DeclaredExports(_, _)
DeclaredExports(tree, i) ==
    IF i > Len(tree) THEN <<>>
    ELSE (IF IsAllAssignment(tree[i]) THEN StringLiterals(tree[i].value.elts) ELSE <<>>)
         \o DeclaredExports(tree, i + 1)

\* C10: all_exports of a parsed module is, in source order, the literal strings of
\* every module-level assignment of a list literal to __all__, later assignments
\* appended; an element that is no literal string is skipped.
C10_ExportsAreStringLiterals ==
    AnalyzedOk => analysis[1].all_exports = DeclaredExports(source.tree, 1)

====
